---- MODULE Spec2Model ----
(***************************************************************************)
(* Booking lifecycle and car-availability schedule of the car-rental       *)
(* back-office: the PATCH handler of app/api/booking/[id]/route.ts with    *)
(* its two paths, handleCompleteBooking and handleRegularUpdate, and the   *)
(* PATCH handler of app/api/booking/[id]/complete/route.ts, running as     *)
(* concurrent requests against the Booking and Car collections; and the    *)
(* PUT and PATCH handlers of the car route.                                *)
(*                                                                         *)
(* Storage is MongoDB as the handlers use it.  An operation given a        *)
(* session runs inside that session's transaction: the transaction takes   *)
(* its snapshot at its first operation, its writes stay private until      *)
(* commitTransaction, and a write to a document that another transaction   *)
(* holds an uncommitted write on, or that was written since the snapshot,  *)
(* throws a WriteConflict.  An operation without a session reads and       *)
(* writes the committed documents directly, and its write waits while a    *)
(* transaction holds an uncommitted write on the document.                 *)
(*                                                                         *)
(* Every await of the handlers is one step, so requests interleave at the  *)
(* awaits.  Any storage call may also throw (a storage failure), which is  *)
(* a nondeterministic branch of its step.                                  *)
(***************************************************************************)
EXTENDS Integers, Sequences, FiniteSets, TLC

(* Bound of the model: the number of requests sent. *)
NReq == 2

Reqs == 1..NReq
Bookings == {"b1", "b2"}
Cars == {"c1"}
Docs == Bookings \cup Cars

Statuses == {"pending", "confirmed", "cancelled", "completed"}

(* The request bodies {action: "complete"} and {status: s}.  setDates and   *)
(* dates stand for a `schedule` field of the body and its date array.       *)
CompleteBody == [action |-> "complete", status |-> "none", setDates |-> FALSE, dates |-> <<>>]

Bodies == {CompleteBody}
          \cup {[action |-> "none", status |-> s, setDates |-> FALSE, dates |-> <<>>] :
                  s \in Statuses}

(* More bodies a client can send: a status that is no status ("bogus"), an  *)
(* empty status, and a status together with a schedule of its own.          *)
EdgeBodies ==
  {[action |-> "none", status |-> s, setDates |-> FALSE, dates |-> <<>>] : s \in {"bogus", ""}}
  \cup {[action |-> "none", status |-> s, setDates |-> TRUE, dates |-> <<3>>] :
          s \in {"confirmed", "cancelled"}}

(* The ids of requests: the bookings, a well-formed id of no booking, and   *)
(* a string that is no ObjectId.                                            *)
Ids == Bookings \cup {"unknown", "malformed"}

(* The booking route and the dedicated complete route. *)
Endpoints == {"main", "dedicated"}

VARIABLES
  bstatus,      \* Booking.status of every booking, as committed
  bdates,       \* Booking.schedule.date of every booking (an array of dates)
  bcar,         \* Booking.carId of every booking
  carSchedule,  \* Car.schedule of every car, as committed (an array of entries)
  lock,         \* per document: the request whose transaction holds an uncommitted write, or 0
  req,          \* per request: the handler's position and locals
  carInfo       \* per car: Car.model (of the fields car management edits), and (ghost)
                \* `at`, the length of the car's schedule when the last update whose
                \* body carried a schedule was applied
VARIABLES
  investors,    \* the Investors collection: per _id, the document or none
  carDocs,      \* the _ids of the documents of the Car collection
  ireq          \* per investor request: the handler's position and locals

vars == <<bstatus, bdates, bcar, carSchedule, lock, req, carInfo,
          investors, carDocs, ireq>>

(* What no booking handler writes. *)
other == <<bcar, carInfo, investors, carDocs, ireq>>

(* What no investor handler and no car deletion writes. *)
bookingSide == <<bstatus, bdates, bcar, carSchedule, lock, req, carInfo>>

----------------------------------------------------------------------------
(* Pure helpers. *)

(* Faulty variant of PullMatches: the dates are not looked at. *)
PullMatchesAnyDate(e, dates) == e.available = "null"

RECURSIVE SeqFilterOut(_, _)
(* The $pull of handleRegularUpdate: drops from the schedule every entry    *)
(* whose date array holds one of `dates` and whose available is null.       *)
PullMatches(e, dates) ==
  /\ \E i \in 1..Len(e.date) : \E j \in 1..Len(dates) : e.date[i] = dates[j]
  /\ e.available = "null"

SeqFilterOut(s, dates) ==
  IF s = <<>> THEN <<>>
  ELSE IF PullMatches(Head(s), dates)
       THEN SeqFilterOut(Tail(s), dates)
       ELSE <<Head(s)>> \o SeqFilterOut(Tail(s), dates)

(* Faulty variant of BlockEntries: one entry for the whole date array. *)
BlockEntriesWhole(b, dates) ==
  <<[date |-> dates, available |-> "null", by |-> b]>>

(* booking.schedule.date.map(d => ({date: [d], available: null})).  The     *)
(* field `by` is a ghost: the booking the entry was pushed for.  No         *)
(* operation of the program reads it.                                       *)
BlockEntries(b, dates) ==
  [i \in 1..Len(dates) |-> [date |-> <<dates[i]>>, available |-> "null", by |-> b]]

CarOf(b) == IF b \in Bookings THEN bcar[b] ELSE "none"

(* What findById gives: the status of the booking, the schedule of the car, *)
(* or nothing when the id names no document.                                *)
StatusOf(id) == IF id \in Bookings THEN bstatus[id] ELSE "none"

SchedOf(c) == IF c \in Cars THEN carSchedule[c] ELSE <<>>

(* The entries the dedicated complete route pushes:                         *)
(* booking.schedule.date.map(d => ({date: [d], available: false})).         *)
UnavailableEntries(b, dates) ==
  [i \in 1..Len(dates) |-> [date |-> <<dates[i]>>, available |-> "false", by |-> b]]

(* The date arrays the bookings were created with: two bookings of one car  *)
(* that share a date, or a booking of one date and a booking of none.       *)
DateConfigs ==
  {[b \in Bookings |-> IF b = "b1" THEN <<1, 2>> ELSE <<2>>],
   [b \in Bookings |-> IF b = "b1" THEN <<1>> ELSE <<>>]}

(* The cars the bookings refer to: car c1, or for b2 a car that was deleted *)
(* (DELETE of the car route does not look at bookings).                     *)
CarConfigs ==
  {[b \in Bookings |-> "c1"],
   [b \in Bookings |-> IF b = "b1" THEN "c1" ELSE "gone"]}

----------------------------------------------------------------------------
IdleReq ==
  [pc |-> "idle", kind |-> "none", id |-> "none", ep |-> "none", via |-> "none",
   setDates |-> FALSE, dates |-> <<>>, escaped |-> FALSE, abortOn |-> "none",
   rd |-> "none", rdDates |-> <<>>,
   txn |-> "none", stale |-> {}, snap |-> [c \in Cars |-> <<>>],
   wStatus |-> "none", hasCar |-> FALSE, newCar |-> <<>>,
   resp |-> 0, exc |-> "none", bw |-> 0, cw |-> 0,
   preSt |-> "none", preSch |-> <<>>, dirty |-> FALSE]

----------------------------------------------------------------------------
(* The investor routes: the data of a request and of the collection.        *)

NInvReq == 2

InvReqs == 1..NInvReq

(* The _ids an investor document can have: one per request, so that every   *)
(* create finds a fresh one.                                                *)
InvIds == 1..NInvReq

(* An email as a client writes it: an address, in upper case or not, with   *)
(* blanks around it or not.                                                 *)
NoEmail == [addr |-> "none", upper |-> FALSE, pad |-> FALSE]

RawEmails ==
  {[addr |-> "a", upper |-> FALSE, pad |-> FALSE],
   [addr |-> "a", upper |-> TRUE, pad |-> TRUE],
   [addr |-> "b", upper |-> FALSE, pad |-> FALSE]}

(* String.prototype.trim and toLowerCase. *)
Trim(e) == [e EXCEPT !.pad = FALSE]

ToLowerCase(e) == [e EXCEPT !.upper = FALSE]

(* The `cars` arrays of request bodies. *)
CarLists == {<<>>, <<"c1">>, <<"c1", "c1">>}

(* The bodies of investor requests: name, phone, location and joinedDate    *)
(* are there and valid; the email and the cars are there or not.            *)
InvBodies ==
  {[email |-> e, hasEmail |-> TRUE, cars |-> cs, hasCars |-> TRUE] :
     e \in RawEmails, cs \in CarLists}
  \cup {[email |-> NoEmail, hasEmail |-> FALSE, cars |-> cs, hasCars |-> TRUE] :
          cs \in CarLists}
  \cup {[email |-> e, hasEmail |-> TRUE, cars |-> <<>>, hasCars |-> FALSE] :
          e \in RawEmails}

NoInvestor == [present |-> FALSE, email |-> NoEmail, cars |-> <<>>]

IdleInvReq ==
  [pc |-> "idle", op |-> "none", id |-> 0, email |-> NoEmail, hasEmail |-> FALSE,
   cars |-> <<>>, hasCars |-> FALSE, resp |-> 0]

(* No investor yet, every car there, no investor request. *)
InvInit ==
  /\ investors = [i \in InvIds |-> NoInvestor]
  /\ carDocs = Cars
  /\ ireq = [k \in InvReqs |-> IdleInvReq]

Init ==
  /\ bstatus = [b \in Bookings |-> "pending"]
  /\ bdates \in DateConfigs
  /\ bcar = [b \in Bookings |-> "c1"]
  /\ carSchedule = [c \in Cars |-> <<>>]
  /\ lock = [d \in Docs |-> 0]
  /\ req = [r \in Reqs |-> IdleReq]
  /\ carInfo = [c \in Cars |-> [model |-> "m0", at |-> 0]]
  /\ InvInit

(* The same with a booking whose car may be gone. *)
InitAll ==
  /\ bstatus = [b \in Bookings |-> "pending"]
  /\ bdates \in DateConfigs
  /\ bcar \in CarConfigs
  /\ carSchedule = [c \in Cars |-> <<>>]
  /\ lock = [d \in Docs |-> 0]
  /\ req = [r \in Reqs |-> IdleReq]
  /\ carInfo = [c \in Cars |-> [model |-> "m0", at |-> 0]]
  /\ InvInit

----------------------------------------------------------------------------
(* Storage semantics shared by the steps. *)

(* Faulty variant of WriteConflict: only an uncommitted write of another    *)
(* transaction conflicts, a write committed since the snapshot does not.    *)
WriteConflictLockOnly(r, d) == lock[d] \notin {0, r}

(* A write inside r's transaction to document d throws a WriteConflict when *)
(* another transaction holds an uncommitted write on d, or d was written    *)
(* after r's snapshot.                                                      *)
WriteConflict(r, d) == lock[d] \notin {0, r} \/ d \in req[r].stale

(* The locks left after r's transaction commits or aborts. *)
Release(r) == [d \in Docs |-> IF lock[d] = r THEN 0 ELSE lock[d]]

(* What a committed write to `docs` by another request means to request q:  *)
(* the documents are newer than the snapshot of q's open transaction, and   *)
(* (ghost) q's booking or car changed under it while it was in flight.      *)
Touch(q, docs) ==
  [q EXCEPT !.stale = IF q.txn = "active" THEN @ \cup docs ELSE @,
            !.dirty = @ \/ (/\ q.pc \notin {"idle", "done"}
                            /\ docs \cap {q.id, CarOf(q.id)} # {})]

ReqUpd(r, new, docs) ==
  [q \in Reqs |-> IF q = r THEN new ELSE Touch(req[q], docs)]

(* NextResponse.json(..., {status: code}) returned to the caller. *)
(* The handler's locals die with it; what stays is what the caller and the   *)
(* store saw of the request.                                                *)
Finish(rec, code) ==
  [rec EXCEPT !.pc = "done", !.resp = code,
              !.rd = "none", !.rdDates = <<>>, !.stale = {}, !.via = "none",
              !.setDates = FALSE, !.dates = <<>>,
              !.preSt = "none", !.preSch = <<>>, !.dirty = FALSE, !.snap = [c \in Cars |-> <<>>],
              !.wStatus = "none", !.hasCar = FALSE, !.newCar = <<>>]

(* An exception leaves the handler: the caller gets no response of the      *)
(* handler's making.                                                        *)
Escape(rec) == [Finish(rec, 0) EXCEPT !.escaped = TRUE]

(* session.abortTransaction() on the active transaction: its writes are     *)
(* dropped.  abortOn (ghost) is the state of the transaction that           *)
(* abortTransaction was called on.                                          *)
Aborted(rec) ==
  [rec EXCEPT !.txn = "aborted", !.abortOn = "active",
              !.wStatus = "none", !.hasCar = FALSE, !.newCar = <<>>]

(* session.commitTransaction(): the transaction's writes become the         *)
(* committed documents, all at once.                                        *)
CommitWrites(r) ==
  LET q == req[r] IN
  /\ bstatus' = IF q.wStatus # "none" THEN [bstatus EXCEPT ![q.id] = q.wStatus]
                ELSE bstatus
  /\ bdates' = IF q.wStatus # "none" /\ q.setDates THEN [bdates EXCEPT ![q.id] = q.dates]
               ELSE bdates
  /\ carSchedule' = IF q.hasCar THEN [carSchedule EXCEPT ![bcar[q.id]] = q.newCar]
                    ELSE carSchedule
  /\ lock' = Release(r)

WrittenDocs(q) ==
  (IF q.wStatus # "none" THEN {q.id} ELSE {}) \cup (IF q.hasCar THEN {bcar[q.id]} ELSE {})

(* Faulty variant of CanComplete: no check against a completed booking. *)
CanCompleteNoCompletedCheck(st) == st # "cancelled"

(* The status checks of handleCompleteBooking. *)
CanComplete(st) == st # "completed" /\ st # "cancelled"

----------------------------------------------------------------------------
(* The dispatch of PATCH: handleCompleteBooking(id) gets the id alone,       *)
(* handleRegularUpdate(id, body) the body, of which the model keeps status. *)
(* Faulty variant of IsComplete: the status of the body is not looked at. *)
IsCompleteByActionOnly(body) == body.action = "complete"

(* if (action === "complete" || status === "completed"). *)
IsComplete(body) == body.action = "complete" \/ body.status = "completed"

Route(body) == IF IsComplete(body) THEN "complete" ELSE body.status

(* PATCH of either route up to its first storage call: dbConnect, the      *)
(* ObjectId check, and the dispatch.  The dedicated route takes no body    *)
(* into account; the second PATCH of the booking route file ("plain")      *)
(* dispatches nothing and keeps the body as it came.  When dbConnect       *)
(* throws, the booking route answers 500, and so does the plain PATCH.     *)
(* The dedicated route calls startSession before its try block, so a       *)
(* failure there leaves the handler; a failure of dbConnect reaches its    *)
(* catch block, whose abortTransaction throws because no transaction was   *)
(* started, and leaves the handler too.                                    *)
(* (ghost) Which field of the body asked for the completion. *)
Via(body) ==
  IF body.action = "complete" THEN "action"
  ELSE IF body.status = "completed" THEN "status" ELSE "none"

(* The locals of the handler once PATCH has dispatched the request: what    *)
(* the handler it calls gets of the request.                                *)
Arrived(rec, id, body, ep) ==
  IF ep = "plain"
  THEN [rec EXCEPT !.kind = body.status, !.id = id, !.ep = ep, !.pc = "p_update",
                   !.setDates = body.setDates, !.dates = body.dates,
                   !.preSt = StatusOf(id), !.preSch = SchedOf(CarOf(id))]
  ELSE
  [rec EXCEPT !.kind = Route(body), !.id = id, !.ep = ep, !.via = Via(body),
              !.pc = IF IsComplete(body) THEN "c_find" ELSE "r_find",
              !.setDates = ~IsComplete(body) /\ body.setDates,
              !.dates = IF IsComplete(body) THEN <<>> ELSE body.dates,
              !.preSt = StatusOf(id), !.preSch = SchedOf(CarOf(id))]

Receive(r, id, body, ep) ==
  LET q == Arrived(req[r], id, body, ep) IN
  /\ req[r].pc = "idle"
  /\ IF r = 1 THEN TRUE ELSE req[r - 1].pc # "idle"   \* numbered by arrival
  /\ ep = "dedicated" => body = CompleteBody
  /\ \/ /\ id # "malformed"
        /\ req' = [req EXCEPT ![r] = q]
     \/ /\ id = "malformed"
        /\ req' = [req EXCEPT ![r] = Finish(q, 400)]
     \/ req' = [req EXCEPT ![r] =
             IF ep = "dedicated"
             THEN Escape([q EXCEPT !.exc = "Storage", !.abortOn = "unstarted"])
             ELSE Finish([q EXCEPT !.exc = "Storage"], 500)]
     \/ /\ ep = "dedicated"     \* startSession throws
        /\ req' = [req EXCEPT ![r] = Escape([q EXCEPT !.exc = "Storage"])]
  /\ UNCHANGED <<bstatus, bdates, other, carSchedule, lock>>

(* handleCompleteBooking (and the same lines of the dedicated route):       *)
(* startSession, startTransaction, findById in the session, the 404 for no  *)
(* booking, and the status checks.                                          *)
CFind(r) ==
  LET q == [req[r] EXCEPT !.via = "none"] IN
  /\ q.pc = "c_find"
  /\ \/ LET st == StatusOf(q.id) IN
        IF st = "none"
        THEN req' = [req EXCEPT ![r] = Finish(Aborted(q), 404)]
        ELSE IF CanComplete(st)
        THEN req' = [req EXCEPT ![r] =
               [q EXCEPT !.pc = "c_wstatus", !.rd = st, !.rdDates = bdates[q.id],
                         !.txn = "active", !.stale = {}, !.snap = carSchedule]]
        ELSE req' = [req EXCEPT ![r] =
               Finish(Aborted([q EXCEPT !.rd = st]), 400)]
     \/ req' = [req EXCEPT ![r] =
               [q EXCEPT !.pc = "c_catch", !.txn = "active", !.exc = "Storage"]]
  /\ UNCHANGED <<bstatus, bdates, other, carSchedule, lock>>

(* Faulty variant of CWriteStatus: the update is issued without the        *)
(* session, so it writes the committed booking at once.                    *)
CWriteStatusNoSession(r) ==
  LET q == req[r] IN
  /\ q.pc = "c_wstatus"
  /\ \/ /\ lock[q.id] = 0
        /\ bstatus' = [bstatus EXCEPT ![q.id] = "completed"]
        /\ req' = ReqUpd(r, [q EXCEPT !.pc = "c_wcar", !.bw = @ + 1], {q.id})
     \/ /\ req' = [req EXCEPT ![r] = [q EXCEPT !.pc = "c_catch", !.exc = "Storage"]]
        /\ UNCHANGED bstatus
  /\ UNCHANGED <<bdates, other, carSchedule, lock>>

(* Step 2: Booking.findByIdAndUpdate($set status completed) in the session. *)
CWriteStatus(r) ==
  LET q == req[r] IN
  /\ q.pc = "c_wstatus"
  /\ \/ /\ ~WriteConflict(r, q.id)
        /\ lock' = [lock EXCEPT ![q.id] = r]
        /\ req' = [req EXCEPT ![r] =
             [q EXCEPT !.pc = "c_wcar", !.wStatus = "completed", !.bw = @ + 1]]
     \/ /\ WriteConflict(r, q.id)
        /\ req' = [req EXCEPT ![r] =
             [q EXCEPT !.pc = "c_catch", !.exc = "WriteConflict", !.bw = @ + 1]]
        /\ UNCHANGED lock
     \/ /\ req' = [req EXCEPT ![r] = [q EXCEPT !.pc = "c_catch", !.exc = "Storage"]]
        /\ UNCHANGED lock
  /\ UNCHANGED <<bstatus, bdates, other, carSchedule>>

(* Step 3: Car.updateOne($push schedule $each entries) in the session,      *)
(* skipped when the booking has no dates.  When no car has the booking's    *)
(* carId the update matches nothing and reports no error.                   *)
CWriteCar(r) ==
  LET q == req[r]
      c == bcar[q.id]
      entries == IF q.ep = "dedicated" THEN UnavailableEntries(q.id, q.rdDates)
                 ELSE BlockEntries(q.id, q.rdDates)
  IN
  /\ q.pc = "c_wcar"
  /\ IF Len(q.rdDates) > 0
     THEN \/ /\ c \notin Cars
             /\ req' = [req EXCEPT ![r] = [q EXCEPT !.pc = "c_commit", !.cw = @ + 1]]
             /\ UNCHANGED lock
          \/ /\ c \in Cars
             /\ ~WriteConflict(r, c)
             /\ lock' = [lock EXCEPT ![c] = r]
             /\ req' = [req EXCEPT ![r] =
                  [q EXCEPT !.pc = "c_commit", !.hasCar = TRUE, !.cw = @ + 1,
                            !.newCar = q.snap[c] \o entries]]
          \/ /\ c \in Cars
             /\ WriteConflict(r, c)
             /\ req' = [req EXCEPT ![r] =
                  [q EXCEPT !.pc = "c_catch", !.exc = "WriteConflict", !.cw = @ + 1]]
             /\ UNCHANGED lock
          \/ /\ req' = [req EXCEPT ![r] = [q EXCEPT !.pc = "c_catch", !.exc = "Storage"]]
             /\ UNCHANGED lock
     ELSE /\ req' = [req EXCEPT ![r] = [q EXCEPT !.pc = "c_commit"]]
          /\ UNCHANGED lock
  /\ UNCHANGED <<bstatus, bdates, other, carSchedule>>

(* Step 4: session.commitTransaction(). *)
CCommit(r) ==
  LET q == req[r] IN
  /\ q.pc = "c_commit"
  /\ \/ /\ CommitWrites(r)
        /\ req' = ReqUpd(r, [q EXCEPT !.pc = "c_reread", !.txn = "committed"],
                         WrittenDocs(q))
     \/ /\ req' = [req EXCEPT ![r] = [q EXCEPT !.pc = "c_catch", !.exc = "Storage"]]
        /\ UNCHANGED <<bstatus, bdates, carSchedule, lock>>
  /\ UNCHANGED other

(* The re-read with populate after the commit, and the 200 response.  When  *)
(* the re-read throws, the catch block calls abortTransaction on the        *)
(* committed transaction; that throws, or returns and the 500 of the catch  *)
(* block is sent: the caller gets a 500 either way, from the catch block   *)
(* of PATCH or from this one.  The dedicated route has no handler around    *)
(* its catch block: there the exception of abortTransaction leaves the      *)
(* handler.                                                                 *)
CReread(r) ==
  LET q == req[r] IN
  /\ q.pc = "c_reread"
  /\ \/ req' = [req EXCEPT ![r] = Finish(q, 200)]
     \/ req' = [req EXCEPT ![r] =
               IF q.ep = "dedicated"
               THEN Escape([q EXCEPT !.exc = "Storage", !.abortOn = "committed"])
               ELSE Finish([q EXCEPT !.exc = "Storage", !.abortOn = "committed"], 500)]
  /\ UNCHANGED <<bstatus, bdates, other, carSchedule, lock>>

(* The catch block of handleCompleteBooking: abortTransaction, 500, and the *)
(* finally block's endSession.                                              *)
CCatch(r) ==
  LET q == req[r] IN
  /\ q.pc = "c_catch"
  /\ lock' = Release(r)
  /\ req' = [req EXCEPT ![r] = Finish(Aborted(q), 500)]
  /\ UNCHANGED <<bstatus, bdates, other, carSchedule>>

(* Faulty variant of RejectsCompleted: no check against a completed booking. *)
RejectsNothing(st, status) == FALSE

(* Faulty variant of RejectsCompleted: a confirmed booking is closed too. *)
RejectsConfirmedToo(st, status) == st \in {"completed", "confirmed"} /\ status # ""

(* if (existingBooking.status === "completed" && status): an empty status   *)
(* is falsy.                                                                *)
RejectsCompleted(st, status) == st = "completed" /\ status # ""

(* Faulty variant of IsCancellation: every status update cancels. *)
AnyStatusCancels(status, st) == TRUE

(* if (status === "cancelled" && existingBooking.status !== "cancelled"). *)
IsCancellation(status, st) == status = "cancelled" /\ st # "cancelled"

(* if (status && !validStatuses.includes(status)). *)
InvalidStatus(status) ==
  status # "" /\ status \notin {"pending", "confirmed", "cancelled"}

(* handleRegularUpdate up to its branch: the status validation, findById    *)
(* without a session, the 404 for no booking, and the check against a       *)
(* completed booking.                                                       *)
RFind(r) ==
  LET q == req[r] IN
  /\ q.pc = "r_find"
  /\ \/ LET st == StatusOf(q.id) IN
        IF InvalidStatus(q.kind)
        THEN req' = [req EXCEPT ![r] = Finish(q, 400)]
        ELSE IF st = "none"
        THEN req' = [req EXCEPT ![r] = Finish(q, 404)]
        ELSE IF RejectsCompleted(st, q.kind)
        THEN req' = [req EXCEPT ![r] = Finish([q EXCEPT !.rd = st], 400)]
        ELSE req' = [req EXCEPT ![r] =
               [q EXCEPT !.pc = IF IsCancellation(q.kind, st)
                                THEN "x_wstatus" ELSE "r_update",
                         !.rd = st, !.rdDates = bdates[q.id]]]
     \/ /\ ~InvalidStatus(q.kind)
        /\ req' = [req EXCEPT ![r] = Finish([q EXCEPT !.exc = "Storage"], 500)]
  /\ UNCHANGED <<bstatus, bdates, other, carSchedule, lock>>

(* The cancellation: startSession, startTransaction, and                    *)
(* Booking.findByIdAndUpdate({...body, status: "cancelled"}) in the         *)
(* session, the first operation of the transaction.                         *)
XWriteStatus(r) ==
  LET q == req[r] IN
  /\ q.pc = "x_wstatus"
  /\ \/ /\ ~WriteConflict(r, q.id)
        /\ lock' = [lock EXCEPT ![q.id] = r]
        /\ req' = [req EXCEPT ![r] =
             [q EXCEPT !.pc = "x_wcar", !.txn = "active", !.stale = {},
                       !.snap = carSchedule, !.wStatus = "cancelled", !.bw = @ + 1]]
     \/ /\ WriteConflict(r, q.id)
        /\ req' = [req EXCEPT ![r] =
             [q EXCEPT !.pc = "x_catch", !.txn = "active", !.exc = "WriteConflict",
                       !.bw = @ + 1]]
        /\ UNCHANGED lock
     \/ /\ req' = [req EXCEPT ![r] =
             [q EXCEPT !.pc = "x_catch", !.txn = "active", !.exc = "Storage"]]
        /\ UNCHANGED lock
  /\ UNCHANGED <<bstatus, bdates, other, carSchedule>>

(* Car.updateOne($pull schedule {date: {$in: dates}, available: null}) in   *)
(* the session.  existingBooking.schedule.date is an array, so the guard    *)
(* around the call is true also for an empty array.  An update that changes *)
(* nothing (or matches no car) writes nothing, so it cannot conflict.       *)
XWriteCar(r) ==
  LET q == req[r]
      c == bcar[q.id]
      old == IF c \in Cars THEN q.snap[c] ELSE <<>>
      new == SeqFilterOut(old, q.rdDates)
  IN
  /\ q.pc = "x_wcar"
  /\ \/ /\ new = old
        /\ req' = [req EXCEPT ![r] = [q EXCEPT !.pc = "x_commit", !.cw = @ + 1]]
        /\ UNCHANGED lock
     \/ /\ new # old
        /\ ~WriteConflict(r, c)
        /\ lock' = [lock EXCEPT ![c] = r]
        /\ req' = [req EXCEPT ![r] =
             [q EXCEPT !.pc = "x_commit", !.hasCar = TRUE, !.newCar = new, !.cw = @ + 1]]
     \/ /\ new # old
        /\ WriteConflict(r, c)
        /\ req' = [req EXCEPT ![r] =
             [q EXCEPT !.pc = "x_catch", !.exc = "WriteConflict", !.cw = @ + 1]]
        /\ UNCHANGED lock
     \/ /\ req' = [req EXCEPT ![r] = [q EXCEPT !.pc = "x_catch", !.exc = "Storage"]]
        /\ UNCHANGED lock
  /\ UNCHANGED <<bstatus, bdates, other, carSchedule>>

(* session.commitTransaction() of the cancellation and its 200 response. *)
XCommit(r) ==
  LET q == req[r] IN
  /\ q.pc = "x_commit"
  /\ \/ /\ CommitWrites(r)
        /\ req' = ReqUpd(r, Finish([q EXCEPT !.txn = "committed"], 200), WrittenDocs(q))
     \/ /\ req' = [req EXCEPT ![r] = [q EXCEPT !.pc = "x_catch", !.exc = "Storage"]]
        /\ UNCHANGED <<bstatus, bdates, carSchedule, lock>>
  /\ UNCHANGED other

(* The catch block of the cancellation: abortTransaction and rethrow, which *)
(* the catch block of PATCH turns into a 500.                               *)
XCatch(r) ==
  LET q == req[r] IN
  /\ q.pc = "x_catch"
  /\ lock' = Release(r)
  /\ req' = [req EXCEPT ![r] = Finish(Aborted(q), 500)]
  /\ UNCHANGED <<bstatus, bdates, other, carSchedule>>

(* Faulty variant of SchemaAccepts: a schema without the enum. *)
SchemaAcceptsAny(status) == TRUE

(* The status enum of the Booking schema (models/booking), which            *)
(* runValidators applies to an update: pending, confirmed, cancelled,       *)
(* completed.                                                               *)
SchemaAccepts(status) == status \in Statuses

(* The regular update: Booking.findByIdAndUpdate(id, body) without a        *)
(* session, and its 200 response.  The body is applied as it came, its      *)
(* schedule included.  The write waits while a transaction holds an         *)
(* uncommitted write on the booking.  A status the schema rejects makes    *)
(* the update throw, which the catch block of PATCH turns into a 500.       *)
RUpdate(r) ==
  LET q == req[r] IN
  /\ q.pc = "r_update"
  /\ \/ /\ SchemaAccepts(q.kind)
        /\ lock[q.id] = 0
        /\ bstatus' = [bstatus EXCEPT ![q.id] = q.kind]
        /\ bdates' = IF q.setDates THEN [bdates EXCEPT ![q.id] = q.dates] ELSE bdates
        /\ req' = ReqUpd(r, Finish([q EXCEPT !.bw = @ + 1], 200), {q.id})
     \/ /\ ~SchemaAccepts(q.kind)
        /\ req' = [req EXCEPT ![r] = Finish([q EXCEPT !.exc = "Validation", !.bw = @ + 1], 500)]
        /\ UNCHANGED <<bstatus, bdates>>
     \/ /\ req' = [req EXCEPT ![r] = Finish([q EXCEPT !.exc = "Storage"], 500)]
        /\ UNCHANGED <<bstatus, bdates>>
  /\ UNCHANGED <<other, carSchedule, lock>>

(* The second PATCH of the booking route file, after its id check:          *)
(* Booking.findByIdAndUpdate(id, body) without a session and without a      *)
(* look at the booking; 404 when no booking has the id, 200 otherwise.  A   *)
(* body without a status leaves the status as it is.                        *)
PUpdate(r) ==
  LET q == req[r] IN
  /\ q.pc = "p_update"
  /\ \/ /\ q.id \notin Bookings
        /\ req' = [req EXCEPT ![r] = Finish(q, 404)]
        /\ UNCHANGED <<bstatus, bdates>>
     \/ /\ q.id \in Bookings
        /\ q.kind = "none" \/ SchemaAccepts(q.kind)
        /\ lock[q.id] = 0
        /\ bstatus' = IF q.kind = "none" THEN bstatus ELSE [bstatus EXCEPT ![q.id] = q.kind]
        /\ bdates' = IF q.setDates THEN [bdates EXCEPT ![q.id] = q.dates] ELSE bdates
        /\ req' = ReqUpd(r, Finish([q EXCEPT !.bw = @ + 1], 200), {q.id})
     \/ /\ q.id \in Bookings
        /\ q.kind # "none" /\ ~SchemaAccepts(q.kind)
        /\ req' = [req EXCEPT ![r] = Finish([q EXCEPT !.exc = "Validation", !.bw = @ + 1], 500)]
        /\ UNCHANGED <<bstatus, bdates>>
     \/ /\ req' = [req EXCEPT ![r] = Finish([q EXCEPT !.exc = "Storage"], 500)]
        /\ UNCHANGED <<bstatus, bdates>>
  /\ UNCHANGED <<other, carSchedule, lock>>

----------------------------------------------------------------------------
(* The steps of a request. *)
Step(r) ==
  \/ CFind(r)
  \/ CWriteStatus(r)
  \/ CWriteCar(r)
  \/ CCommit(r)
  \/ CReread(r)
  \/ CCatch(r)
  \/ RFind(r)
  \/ XWriteStatus(r)
  \/ XWriteCar(r)
  \/ XCommit(r)
  \/ XCatch(r)
  \/ RUpdate(r)

Next ==
  \E r \in Reqs :
    \/ \E b \in Bookings, body \in Bodies : Receive(r, b, body, "main")
    \/ CFind(r)
    \/ CWriteStatus(r)
    \/ CWriteCar(r)
    \/ CCommit(r)
    \/ CReread(r)
    \/ CCatch(r)
    \/ RFind(r)
    \/ XWriteStatus(r)
    \/ XWriteCar(r)
    \/ XCommit(r)
    \/ XCatch(r)
    \/ RUpdate(r)

----------------------------------------------------------------------------
(* Car management: PUT and PATCH of app/api/cars/search/[id]/route.ts.      *)

(* The bodies of car updates: a model or none, a schedule (the empty array) *)
(* or none.                                                                 *)
CarBodies == [model : {"absent", "m1"}, schedule : {"absent", "empty"}]

(* The keys a body carries. *)
Keys(body) == {f \in {"model", "schedule"} : body[f] # "absent"}

(* Faulty variant of AllowedFields: the schedule may be set. *)
AllowedFieldsAndSchedule ==
  {"model", "type", "registrationNumber", "location", "pricePerDay", "year",
   "transmission", "fuel", "seats", "features", "image", "schedule"}

(* allowedFields of PATCH. *)
AllowedFields ==
  {"model", "type", "registrationNumber", "location", "pricePerDay", "year",
   "transmission", "fuel", "seats", "features", "image"}

(* updateData of PATCH: the keys of the body that are allowed and not null. *)
PatchUpdate(body) == Keys(body) \cap AllowedFields

(* updateData of PUT: built from the form fields the handler reads by name  *)
(* (of which the model keeps `model`).                                      *)
PutUpdate(body) == IF body.model # "absent" THEN {"model"} ELSE {}

(* Car.findByIdAndUpdate(id, updateData) without a session; an empty        *)
(* updateData is answered with 400 before it.  The write waits while a      *)
(* transaction holds an uncommitted write on the car.                       *)
UpdateCar(c, body, upd) ==
  /\ upd # {}
  /\ lock[c] = 0
  /\ carInfo' = [carInfo EXCEPT ![c] =
       [model |-> IF "model" \in upd THEN body.model ELSE @.model,
        at |-> IF body.schedule # "absent" THEN Len(carSchedule[c]) ELSE @.at]]
  /\ carSchedule' = IF "schedule" \in upd THEN [carSchedule EXCEPT ![c] = <<>>]
                    ELSE carSchedule
  /\ req' = [q \in Reqs |-> Touch(req[q], {c})]
  /\ UNCHANGED <<bstatus, bdates, bcar, lock, investors, carDocs, ireq>>

CarPut(c, body) == UpdateCar(c, body, PutUpdate(body))

CarPatch(c, body) == UpdateCar(c, body, PatchUpdate(body))

----------------------------------------------------------------------------
(* The investor routes: POST of app/api/investor/route.ts, PUT and PATCH of *)
(* app/api/investor/[id]/route.ts; and DELETE of the car route.             *)

(* The storage calls of each handler, in the handler's order. *)
Calls(op) ==
  IF op = "POST" THEN <<"cars", "write">>
  ELSE IF op = "PUT" THEN <<"cars", "find", "email", "write">>
  ELSE <<"find", "email", "cars", "write">>

(* Whether the handler makes the call for this request: the car check when  *)
(* the body has a non-empty cars array, the email check of PATCH when the   *)
(* body has an email.                                                       *)
Makes(rec, call) ==
  IF call = "cars" THEN rec.hasCars /\ Len(rec.cars) > 0
  ELSE IF call = "email" THEN rec.hasEmail
  ELSE TRUE

(* The first call the handler makes among the calls from position n on. *)
RECURSIVE CallFrom(_, _)
CallFrom(rec, n) ==
  IF Makes(rec, Calls(rec.op)[n]) THEN Calls(rec.op)[n] ELSE CallFrom(rec, n + 1)

(* The position of a call in the handler's order. *)
PosOf(op, call) == CHOOSE n \in 1..Len(Calls(op)) : Calls(op)[n] = call

(* The handler goes on to the call after `call`. *)
Proceed(rec, call) == [rec EXCEPT !.pc = CallFrom(rec, PosOf(rec.op, call) + 1)]

(* NextResponse.json(..., {status: code}). *)
InvFinish(rec, code) == [IdleInvReq EXCEPT !.pc = "done", !.op = rec.op, !.resp = code]

(* The handler up to its first storage call.  POST and PUT take the cars of *)
(* the body or [] and answer 400 to a body without email; PATCH takes the   *)
(* allowed fields the body has.                                             *)
InvReceive(k, op, id, body) ==
  LET rec == [ireq[k] EXCEPT !.op = op, !.id = id,
                             !.email = body.email, !.hasEmail = body.hasEmail,
                             !.cars = body.cars,
                             !.hasCars = IF op = "PATCH" THEN body.hasCars ELSE TRUE]
  IN
  /\ ireq[k].pc = "idle"
  /\ IF k = 1 THEN TRUE ELSE ireq[k - 1].pc # "idle"   \* numbered by arrival
  /\ op = "POST" => id = 1                             \* POST takes no id
  /\ ireq' = [ireq EXCEPT ![k] =
       IF op # "PATCH" /\ ~body.hasEmail THEN InvFinish(rec, 400)
       ELSE [rec EXCEPT !.pc = CallFrom(rec, 1)]]
  /\ UNCHANGED <<investors, carDocs, bookingSide>>

(* validCars.length of Car.find({_id: {$in: cars}}): the number of car       *)
(* documents whose _id is in the array.                                     *)
ValidCars(cars) ==
  Cardinality({c \in carDocs : \E n \in 1..Len(cars) : cars[n] = c})

(* The car check: 400 unless validCars.length === cars.length. *)
InvCars(k) ==
  LET rec == ireq[k] IN
  /\ rec.pc = "cars"
  /\ \/ ireq' = [ireq EXCEPT ![k] =
          IF ValidCars(rec.cars) # Len(rec.cars) THEN InvFinish(rec, 400)
          ELSE Proceed(rec, "cars")]
     \/ ireq' = [ireq EXCEPT ![k] = InvFinish(rec, 500)]
  /\ UNCHANGED <<investors, carDocs, bookingSide>>

(* Investors.findById(id): 404 when there is none. *)
InvFind(k) ==
  LET rec == ireq[k] IN
  /\ rec.pc = "find"
  /\ \/ ireq' = [ireq EXCEPT ![k] =
          IF ~investors[rec.id].present THEN InvFinish(rec, 404)
          ELSE Proceed(rec, "find")]
     \/ ireq' = [ireq EXCEPT ![k] = InvFinish(rec, 500)]
  /\ UNCHANGED <<investors, carDocs, bookingSide>>

(* Investors.findOne({email, _id: {$ne: id}}) with the email trimmed and in  *)
(* lower case: an investor other than `id` that has the email.              *)
EmailConflict(id, email) ==
  \E j \in InvIds \ {id} :
    investors[j].present /\ investors[j].email = ToLowerCase(Trim(email))

(* The email check of PUT and PATCH: 400 on a conflict. *)
InvEmail(k) ==
  LET rec == ireq[k] IN
  /\ rec.pc = "email"
  /\ \/ ireq' = [ireq EXCEPT ![k] =
          IF EmailConflict(rec.id, rec.email) THEN InvFinish(rec, 400)
          ELSE Proceed(rec, "email")]
     \/ ireq' = [ireq EXCEPT ![k] = InvFinish(rec, 500)]
  /\ UNCHANGED <<investors, carDocs, bookingSide>>

(* The document the handler writes: the email trimmed and in lower case,    *)
(* the cars of the body; what a PATCH body lacks stays.                     *)
Written(old, rec) ==
  [present |-> TRUE,
   email |-> IF rec.hasEmail THEN ToLowerCase(Trim(rec.email)) ELSE old.email,
   cars |-> IF rec.hasCars THEN rec.cars ELSE old.cars]

(* The _id of a created document: one no document has. *)
FreshId == CHOOSE i \in InvIds : ~investors[i].present /\
                                 \A j \in InvIds : ~investors[j].present => i <= j

(* Investors.create of POST (201) and Investors.findByIdAndUpdate of PUT    *)
(* and PATCH (200).  The schema has no unique index, so no write is         *)
(* refused for its email.                                                   *)
InvWrite(k) ==
  LET rec == ireq[k] IN
  /\ rec.pc = "write"
  /\ \/ /\ rec.op = "POST"
        /\ investors' = [investors EXCEPT ![FreshId] = Written(NoInvestor, rec)]
        /\ ireq' = [ireq EXCEPT ![k] = InvFinish(rec, 201)]
     \/ /\ rec.op # "POST"
        /\ investors' = [investors EXCEPT ![rec.id] =
             IF @.present THEN Written(@, rec) ELSE @]
        /\ ireq' = [ireq EXCEPT ![k] = InvFinish(rec, 200)]
     \/ /\ ireq' = [ireq EXCEPT ![k] = InvFinish(rec, 500)]
        /\ UNCHANGED investors
  /\ UNCHANGED <<carDocs, bookingSide>>

(* DELETE of the car route: Car.findById, then Car.findByIdAndDelete; no    *)
(* look at the investors.  (404 when there is no such car.)                 *)
CarDelete(c) ==
  /\ c \in carDocs
  /\ carDocs' = carDocs \ {c}
  /\ UNCHANGED <<investors, ireq, bookingSide>>

NextInv ==
  \/ \E k \in InvReqs :
       \/ \E op \in {"POST", "PUT", "PATCH"}, id \in InvIds, body \in InvBodies :
            InvReceive(k, op, id, body)
       \/ InvCars(k)
       \/ InvFind(k)
       \/ InvEmail(k)
       \/ InvWrite(k)
  \/ \E c \in Cars : CarDelete(c)

(* Requests of the investor routes and car deletions. *)
SpecInv == Init /\ [][NextInv]_vars

----------------------------------------------------------------------------
(* Requests of the booking route, with well-formed bodies, on bookings      *)
(* whose car exists.                                                        *)
Spec == Init /\ [][Next]_vars

(* Requests of both routes, with any id and any body, on bookings whose car *)
(* may be gone.                                                             *)
NextAll ==
  \E r \in Reqs :
    \/ \E id \in Ids, body \in Bodies \cup EdgeBodies, ep \in Endpoints :
         Receive(r, id, body, ep)
    \/ Step(r)

SpecAll == InitAll /\ [][NextAll]_vars

(* Requests to both PATCH handlers of the booking route file, with any      *)
(* body, on booking b1.                                                     *)
NextPlain ==
  \E r \in Reqs :
    \/ \E body \in Bodies \cup EdgeBodies, ep \in {"main", "plain"} :
         Receive(r, "b1", body, ep)
    \/ Step(r)
    \/ PUpdate(r)

SpecPlain == Init /\ [][NextPlain]_vars

(* Requests of the booking route on booking b1 together with car            *)
(* management.                                                              *)
NextCar ==
  \/ \E r \in Reqs :
       \/ \E body \in Bodies : Receive(r, "b1", body, "main")
       \/ Step(r)
  \/ \E c \in Cars, body \in CarBodies : CarPut(c, body)
  \/ \E c \in Cars, body \in CarBodies : CarPatch(c, body)

SpecCar == Init /\ [][NextCar]_vars

----------------------------------------------------------------------------
(* Vocabulary of the properties. *)

(* Request r returns to its caller in this step. *)
Returns(r) == req[r].pc \notin {"idle", "done"} /\ req'[r].pc = "done"

(* No other request wrote r's booking or its car since r arrived, so the    *)
(* values r met at its call are the values its own steps work on.           *)
Undisturbed(r) == req[r].pc \notin {"idle", "done"} /\ ~req[r].dirty

(* The blocking entries of car c pushed for booking b that hold date d. *)
BlocksOf(c, b, d) ==
  {i \in 1..Len(carSchedule[c]) :
     /\ carSchedule[c][i].available = "null"
     /\ carSchedule[c][i].by = b
     /\ \E k \in 1..Len(carSchedule[c][i].date) : carSchedule[c][i].date[k] = d}

(* The entries of schedule s that were not pushed for booking b, in order. *)
RECURSIVE NotBy(_, _)
NotBy(s, b) ==
  IF s = <<>> THEN <<>>
  ELSE IF Head(s).by = b THEN NotBy(Tail(s), b)
       ELSE <<Head(s)>> \o NotBy(Tail(s), b)

----------------------------------------------------------------------------
(* C1: when a failure (a storage failure or a write conflict) strikes       *)
(* inside the transaction of complete or cancel once the status write was   *)
(* issued (at the status write, at the car-schedule write or at commit),    *)
(* the request returns an error and the booking's status and its car's      *)
(* schedule are what they were before the call.                             *)
C1_FailedTransactionRolledBack ==
  [][\A r \in Reqs :
       (/\ Returns(r)
        /\ Undisturbed(r)
        /\ req[r].pc \in {"c_catch", "x_catch"}
        /\ req[r].exc # "none"
        /\ req[r].bw = 1)
       => /\ req'[r].resp = 500
          /\ bstatus'[req[r].id] = req[r].preSt
          /\ carSchedule'[bcar[req[r].id]] = req[r].preSch]_vars

(* A request has returned 500 after a storage failure that struck when both *)
(* of its writes had been made in the transaction.                          *)
C1_Witness ==
  \E r \in Reqs :
    /\ req[r].pc = "done" /\ req[r].resp = 500 /\ req[r].exc = "Storage"
    /\ req[r].bw = 1 /\ req[r].cw = 1 /\ req[r].txn = "aborted"

(* C2: every completed booking has, for each of its dates, exactly one      *)
(* blocking entry pushed for it in its car's schedule.                      *)
C2_CompletedDatesBlockedOnce ==
  \A b \in Bookings :
    bstatus[b] = "completed" =>
      \A k \in 1..Len(bdates[b]) :
        Cardinality(BlocksOf(bcar[b], b, bdates[b][k])) = 1

(* C3: a successful cancel of booking B sets B's status to cancelled and    *)
(* removes from the car's schedule the entries pushed for B and no others.  *)
C3_CancelRemovesOnlyOwnEntries ==
  [][\A r \in Reqs :
       (/\ Returns(r)
        /\ req[r].pc = "x_commit"
        /\ req'[r].resp = 200)
       => /\ bstatus'[req[r].id] = "cancelled"
          /\ carSchedule'[bcar[req[r].id]]
               = NotBy(carSchedule[bcar[req[r].id]], req[r].id)]_vars

(* C4: the commit of complete(B), B pending or confirmed with dates D, sets *)
(* B's status to completed and, in the same step, appends one entry         *)
(* {date: [d], available: null} per date d of D, in D's order, after the    *)
(* entries the schedule had, which stay as they were.                       *)
C4_CompleteAppendsOneEntryPerDate ==
  [][\A r \in Reqs :
       (req[r].pc = "c_commit" /\ req'[r].pc = "c_reread")
       => LET b == req[r].id
              old == carSchedule[bcar[b]]
              new == carSchedule'[bcar[b]]
              D == bdates[b]
          IN /\ req[r].rd \in {"pending", "confirmed"}
             /\ bstatus[b] = req[r].rd
             /\ bstatus'[b] = "completed"
             /\ Len(new) = Len(old) + Len(D)
             /\ \A i \in 1..Len(old) : new[i] = old[i]
             /\ \A k \in 1..Len(D) :
                  /\ new[Len(old) + k].date = <<D[k]>>
                  /\ new[Len(old) + k].available = "null"]_vars

(* complete(b1) of two dates has committed on a car whose schedule already  *)
(* held the entry of another booking.                                       *)
C4_Witness ==
  \E r \in Reqs :
    /\ req[r].pc = "c_reread" /\ req[r].id = "b1"
    /\ bstatus["b1"] = "completed"
    /\ Len(bdates["b1"]) = 2
    /\ Len(carSchedule["c1"]) = 3
    /\ carSchedule["c1"][1].by = "b2"

(* C5: no step of any request changes the status of a completed booking. *)
C5_CompletedIsTerminal ==
  [][\A b \in Bookings : bstatus[b] = "completed" => bstatus'[b] = "completed"]_vars

(* C6: a request that arrives at a cancelled booking, and runs alone on it, *)
(* leaves the booking cancelled.                                            *)
C6_CancelledIsTerminal ==
  [][\A r \in Reqs :
       (Returns(r) /\ Undisturbed(r) /\ req[r].preSt = "cancelled")
       => bstatus'[req[r].id] = "cancelled"]_vars

(* C7: when the only requests sent are two complete requests on one         *)
(* booking, and no storage failure strikes them, then once both have        *)
(* returned exactly one has succeeded, the other has failed, the booking is *)
(* completed and the car's schedule holds one entry per date of the         *)
(* booking, not two.                                                        *)
C7_ConcurrentCompletesOneSucceeds ==
  \A r1, r2 \in Reqs :
    (/\ r1 # r2
     /\ req[r1].pc = "done" /\ req[r2].pc = "done"
     /\ req[r1].kind = "complete" /\ req[r2].kind = "complete"
     /\ req[r1].id = req[r2].id
     /\ req[r1].exc # "Storage" /\ req[r2].exc # "Storage"
     /\ \A q \in Reqs \ {r1, r2} : req[q].pc = "idle")
    => LET b == req[r1].id
           sch == carSchedule[bcar[b]]
           D == bdates[b]
       IN /\ Cardinality({r \in {r1, r2} : req[r].resp = 200}) = 1
          /\ Cardinality({r \in {r1, r2} : req[r].resp \in {400, 500}}) = 1
          /\ bstatus[b] = "completed"
          /\ Len(sch) = Len(D)
          /\ \A k \in 1..Len(D) : sch[k].date = <<D[k]>> /\ sch[k].available = "null"

(* Two complete requests on b1 overlapped: one returned 200 and the other   *)
(* was stopped by a write conflict.                                         *)
C7_Witness ==
  \E r1, r2 \in Reqs :
    /\ r1 # r2
    /\ req[r1].pc = "done" /\ req[r2].pc = "done"
    /\ req[r1].kind = "complete" /\ req[r2].kind = "complete"
    /\ req[r1].id = "b1" /\ req[r2].id = "b1"
    /\ req[r1].resp = 200
    /\ req[r2].resp = 500 /\ req[r2].exc = "WriteConflict"

(* C8: when the only requests sent are a complete and a cancel on one       *)
(* booking, and no storage failure strikes them, then once both have        *)
(* returned one has succeeded and set the booking's status, and the other   *)
(* has failed and committed nothing.                                        *)
C8_RaceLoserFails ==
  \A r1, r2 \in Reqs :
    (/\ req[r1].pc = "done" /\ req[r2].pc = "done"
     /\ req[r1].kind = "complete" /\ req[r2].kind = "cancelled"
     /\ req[r1].id = req[r2].id
     /\ req[r1].exc # "Storage" /\ req[r2].exc # "Storage"
     /\ \A q \in Reqs \ {r1, r2} : req[q].pc = "idle")
    => \/ /\ req[r1].resp = 200 /\ bstatus[req[r1].id] = "completed"
          /\ req[r2].resp >= 400 /\ req[r2].txn # "committed"
       \/ /\ req[r2].resp = 200 /\ bstatus[req[r1].id] = "cancelled"
          /\ req[r1].resp >= 400 /\ req[r1].txn # "committed"

(* C9: a complete request that meets its booking completed returns 400,     *)
(* issues no write to the booking or the car, and leaves the booking's      *)
(* status and the car's schedule as they were.                              *)
C9_CompleteOnCompletedRejected ==
  [][\A r \in Reqs :
       (/\ Returns(r)
        /\ Undisturbed(r)
        /\ req[r].kind = "complete"
        /\ req[r].preSt = "completed"
        /\ req'[r].exc = "none")
       => /\ req'[r].resp = 400
          /\ req'[r].bw = 0 /\ req'[r].cw = 0
          /\ req'[r].txn = "aborted"
          /\ bstatus'[req[r].id] = "completed"
          /\ carSchedule'[bcar[req[r].id]] = req[r].preSch]_vars

(* A complete request on a completed booking of two dates has been          *)
(* rejected, and the schedule holds the two entries of the first complete.  *)
C9_Witness ==
  \E r \in Reqs :
    /\ req[r].pc = "done" /\ req[r].kind = "complete" /\ req[r].resp = 400
    /\ req[r].id = "b1" /\ bstatus["b1"] = "completed"
    /\ Len(bdates["b1"]) = 2 /\ Len(carSchedule["c1"]) = 2

(* C10: a cancel request that meets its booking cancelled returns 400 and   *)
(* issues no write to the booking or the car.                               *)
C10_CancelOnCancelledRejected ==
  [][\A r \in Reqs :
       (/\ Returns(r)
        /\ Undisturbed(r)
        /\ req[r].kind = "cancelled"
        /\ req[r].preSt = "cancelled"
        /\ req'[r].exc = "none")
       => /\ req'[r].resp = 400
          /\ req'[r].bw = 0 /\ req'[r].cw = 0]_vars

(* C11: a complete request that meets its booking cancelled, and a cancel   *)
(* or confirm request that meets its booking completed, return 400 (unless  *)
(* the storage fails them), issue no write to the booking, and leave the    *)
(* booking's status and the car's schedule as they were.                    *)
C11_IllegalTransitionsRejected ==
  [][\A r \in Reqs :
       (/\ Returns(r)
        /\ Undisturbed(r)
        /\ req'[r].exc = "none"
        /\ \/ req[r].kind = "complete" /\ req[r].preSt = "cancelled"
           \/ req[r].kind \in {"cancelled", "confirmed"} /\ req[r].preSt = "completed")
       => /\ req'[r].resp = 400
          /\ req'[r].bw = 0 /\ req'[r].cw = 0
          /\ bstatus'[req[r].id] = req[r].preSt
          /\ carSchedule'[bcar[req[r].id]] = req[r].preSch
          /\ bstatus' = bstatus /\ carSchedule' = carSchedule]_vars

(* A cancel or confirm request on a completed booking has been rejected     *)
(* without a write, and the booking is completed still.                     *)
C11_Witness ==
  \E r \in Reqs :
    /\ req[r].pc = "done" /\ req[r].kind \in {"cancelled", "confirmed"}
    /\ req[r].resp = 400 /\ req[r].bw = 0
    /\ bstatus[req[r].id] = "completed"
    /\ Len(carSchedule[bcar[req[r].id]]) > 0

(* The transitions of the booking state machine. *)
StateMachine ==
  {<<"pending", "confirmed">>, <<"pending", "cancelled">>, <<"confirmed", "cancelled">>,
   <<"pending", "completed">>, <<"confirmed", "completed">>}

(* C12: every change of a booking's status is a transition of the state     *)
(* machine.                                                                 *)
C12_StatusChangesFollowStateMachine ==
  [][\A b \in Bookings :
       bstatus'[b] # bstatus[b] => <<bstatus[b], bstatus'[b]>> \in StateMachine]_vars

(* C13: when a complete or cancel request, running alone on its booking,    *)
(* returns a 4xx or 5xx response, the booking's status and the car's        *)
(* schedule are what they were when the request arrived.                    *)
C13_FailureResponseMeansNoChange ==
  [][\A r \in Reqs :
       (/\ Returns(r)
        /\ Undisturbed(r)
        /\ req[r].kind \in {"complete", "cancelled"}
        /\ req'[r].resp >= 400)
       => /\ bstatus'[req[r].id] = req[r].preSt
          /\ carSchedule'[bcar[req[r].id]] = req[r].preSch]_vars

(* C14: a complete or cancel request on a booking with dates that issues    *)
(* its update of the car's schedule when no car has the booking's carId,    *)
(* and is not failed by the storage, returns 404.                           *)
C14_MissingCarNotFound ==
  [][\A r \in Reqs :
       (/\ Returns(r)
        /\ req[r].kind \in {"complete", "cancelled"}
        /\ req[r].id \in Bookings
        /\ CarOf(req[r].id) \notin Cars
        /\ bdates[req[r].id] # <<>>
        /\ req'[r].cw > 0
        /\ req'[r].exc = "none")
       => req'[r].resp = 404]_vars

(* C15: no step of any request changes the dates of a booking. *)
C15_BookingDatesImmutable ==
  [][bdates' = bdates]_vars

(* C16: a confirm request that returns 200, having run alone on its         *)
(* booking, leaves the booking confirmed, has issued no write to a car, and *)
(* leaves the schedule of every car as it was when the request arrived.     *)
C16_ConfirmHasNoScheduleEffect ==
  [][\A r \in Reqs :
       (/\ Returns(r)
        /\ Undisturbed(r)
        /\ req[r].kind = "confirmed"
        /\ req'[r].resp = 200)
       => /\ bstatus'[req[r].id] = "confirmed"
          /\ req'[r].cw = 0
          /\ carSchedule' = carSchedule
          /\ carSchedule'[bcar[req[r].id]] = req[r].preSch]_vars

(* A confirm request has returned 200 on a booking whose car has blocking   *)
(* entries; the booking is confirmed.                                       *)
C16_Witness ==
  \E r \in Reqs :
    /\ req[r].pc = "done" /\ req[r].kind = "confirmed" /\ req[r].resp = 200
    /\ bstatus[req[r].id] = "confirmed"
    /\ Len(carSchedule[bcar[req[r].id]]) > 0

(* C17: a complete or cancel request on a pending or confirmed booking that *)
(* has no dates, running alone on it and not failed by the storage, returns *)
(* 200, leaves the booking completed (cancelled), and leaves the car's      *)
(* schedule as it was when the request arrived.                             *)
C17_NoDatesStatusOnly ==
  [][\A r \in Reqs :
       (/\ Returns(r)
        /\ Undisturbed(r)
        /\ req[r].kind \in {"complete", "cancelled"}
        /\ req[r].preSt \in {"pending", "confirmed"}
        /\ bdates[req[r].id] = <<>>
        /\ req'[r].exc = "none")
       => /\ req'[r].resp = 200
          /\ req'[r].bw = 1
          /\ bstatus'[req[r].id] = IF req[r].kind = "complete" THEN "completed"
                                   ELSE "cancelled"
          /\ carSchedule'[bcar[req[r].id]] = req[r].preSch]_vars

(* The booking without dates has been cancelled with a 200 while the car's  *)
(* schedule holds the entry of the other booking.                           *)
C17_Witness ==
  \E r \in Reqs :
    /\ req[r].pc = "done" /\ req[r].kind = "cancelled" /\ req[r].resp = 200
    /\ req[r].id = "b2" /\ bdates["b2"] = <<>>
    /\ bstatus["b2"] = "cancelled"
    /\ Len(carSchedule["c1"]) = 1

(* The body {status: "completed"}. *)
CompletedStatusBody ==
  [action |-> "none", status |-> "completed", setDates |-> FALSE, dates |-> <<>>]

(* C21: in every state, a request that arrives for a booking with the body  *)
(* {status: "completed"} is dispatched with the locals, the position and    *)
(* the handler of the same request with {action: "complete"}: all that      *)
(* follows (response, booking status, car schedule) is a function of these  *)
(* and of the store, so it is the same.                                     *)
C21_CompleteFormsEquivalent ==
  \A r \in Reqs, id \in Bookings :
    req[r].pc = "idle"
    => /\ Arrived(req[r], id, CompletedStatusBody, "main").pc = "c_find"
       /\ [Arrived(req[r], id, CompletedStatusBody, "main") EXCEPT !.via = "action"]
            = Arrived(req[r], id, CompleteBody, "main")

(* A request with the body {status: "completed"} on a booking that an       *)
(* earlier request confirmed is in handleCompleteBooking.                   *)
C21_Witness ==
  \E r \in Reqs :
    /\ req[r].pc = "c_find" /\ req[r].via = "status" /\ req[r].kind = "complete"
    /\ req[r].preSt = "confirmed"

(* C22: a confirm request that meets its booking confirmed, runs alone on   *)
(* it and is not failed by the storage returns 200, and its update leaves   *)
(* every booking's status and dates and every car's schedule as they were:  *)
(* the state after the second confirm is the state after the first.         *)
C22_ConfirmIsIdempotent ==
  [][\A r \in Reqs :
       (/\ Returns(r)
        /\ Undisturbed(r)
        /\ req[r].kind = "confirmed"
        /\ req[r].preSt = "confirmed"
        /\ req'[r].exc = "none")
       => /\ req'[r].resp = 200
          /\ bstatus'[req[r].id] = "confirmed"
          /\ <<bstatus', bdates', carSchedule'>> = <<bstatus, bdates, carSchedule>>]_vars

(* Two confirm requests on one booking have both returned 200 after their   *)
(* updates, the later of which was applied to a confirmed booking; the      *)
(* booking is confirmed.                                                    *)
C22_Witness ==
  \E r1, r2 \in Reqs :
    /\ r1 # r2
    /\ req[r1].pc = "done" /\ req[r2].pc = "done"
    /\ req[r1].kind = "confirmed" /\ req[r2].kind = "confirmed"
    /\ req[r1].id = req[r2].id
    /\ req[r1].resp = 200 /\ req[r2].resp = 200
    /\ req[r1].bw = 1 /\ req[r2].bw = 1
    /\ bstatus[req[r1].id] = "confirmed"

C24_StatusWrittenAfterCheck ==
  [][\A b \in Bookings :
       bstatus'[b] # bstatus[b]
       => \E r \in Reqs : /\ req[r].id = b
                          /\ req'[r].pc # req[r].pc
                          /\ req[r].rd # "none"]_vars

(* C25: the commit of a complete, by either route, puts after the entries   *)
(* of the car's schedule the entries the booking route pushes for the       *)
(* booking's dates, each of which the removal predicate of cancel matches.  *)
C25_CompleteRoutesEquivalent ==
  [][\A r \in Reqs :
       (/\ req[r].pc = "c_commit" /\ req'[r].pc = "c_reread"
        /\ CarOf(req[r].id) \in Cars)
       => LET c == CarOf(req[r].id)
              D == req[r].rdDates
          IN /\ bstatus'[req[r].id] = "completed"
             /\ carSchedule'[c] = carSchedule[c] \o BlockEntries(req[r].id, D)
             /\ \A i \in Len(carSchedule[c]) + 1 .. Len(carSchedule'[c]) :
                  PullMatches(carSchedule'[c][i], D)]_vars

(* C26: when the only requests sent are two complete requests on two        *)
(* bookings of one car, then once both have ended the car's schedule holds, *)
(* for each of the two bookings, one blocking entry per date if the booking *)
(* is completed and none if it is not.                                      *)
C26_NoLostScheduleUpdate ==
  \A r1, r2 \in Reqs :
    (/\ r1 # r2
     /\ req[r1].pc = "done" /\ req[r2].pc = "done"
     /\ req[r1].kind = "complete" /\ req[r2].kind = "complete"
     /\ req[r1].id # req[r2].id
     /\ bcar[req[r1].id] = bcar[req[r2].id]
     /\ \A q \in Reqs \ {r1, r2} : req[q].pc = "idle")
    => \A b \in {req[r1].id, req[r2].id} :
         /\ Len(carSchedule[bcar[b]])
              = (IF bstatus[req[r1].id] = "completed" THEN Len(bdates[req[r1].id]) ELSE 0)
                + (IF bstatus[req[r2].id] = "completed" THEN Len(bdates[req[r2].id]) ELSE 0)
         /\ \A k \in 1..Len(bdates[b]) :
              Cardinality(BlocksOf(bcar[b], b, bdates[b][k]))
                = IF bstatus[b] = "completed" THEN 1 ELSE 0

(* Two complete requests on the two bookings of the car overlapped: one     *)
(* has committed, the other met a write conflict on the car; the schedule   *)
(* holds the entries of the first alone.                                    *)
C26_Witness ==
  \E r1, r2 \in Reqs :
    /\ req[r1].pc = "done" /\ req[r2].pc = "done"
    /\ req[r1].kind = "complete" /\ req[r2].kind = "complete"
    /\ req[r1].id = "b1" /\ req[r2].id = "b2"
    /\ req[r1].resp = 200 /\ bstatus["b1"] = "completed"
    /\ req[r2].exc = "WriteConflict" /\ req[r2].cw = 1 /\ bstatus["b2"] = "pending"
    /\ Len(bdates["b2"]) = 1
    /\ Len(carSchedule["c1"]) = Len(bdates["b1"])

(* C27: a complete or cancel request that has ended has called              *)
(* abortTransaction, if at all, on an active transaction: not on one that   *)
(* was committed and not before one was started; and its transaction, if    *)
(* started, is committed or aborted.                                        *)
C27_TransactionEndedOnce ==
  \A r \in Reqs :
    (req[r].pc = "done" /\ req[r].kind \in {"complete", "cancelled"})
    => /\ req[r].abortOn \in {"none", "active"}
       /\ req[r].txn \in {"none", "committed", "aborted"}

(* C28: no two investors have the same email, trimmed and in lower case. *)
C28_InvestorEmailsUnique ==
  \A i, j \in InvIds :
    (i # j /\ investors[i].present /\ investors[j].present)
    => ToLowerCase(Trim(investors[i].email)) # ToLowerCase(Trim(investors[j].email))

(* C29: every car is in the cars of at most one investor. *)
C29_CarHasOneInvestor ==
  \A c \in Cars :
    Cardinality({i \in InvIds :
                   /\ investors[i].present
                   /\ \E n \in 1..Len(investors[i].cars) : investors[i].cars[n] = c}) <= 1

(* C30: every car id in the cars of an investor is the _id of a car         *)
(* document.                                                                *)
C30_InvestorCarsExist ==
  \A i \in InvIds :
    investors[i].present
    => \A n \in 1..Len(investors[i].cars) : investors[i].cars[n] \in carDocs

(* A request ends: it returns a response or an exception leaves it. *)
Ends(r) == req[r].pc # "done" /\ req'[r].pc = "done"

(* C19: no PUT and no PATCH of a car, whatever its body carries, changes    *)
(* the schedule of a car; every step that changes a schedule is the commit  *)
(* of a complete or of a cancel.                                            *)
C19_CarManagementKeepsSchedule ==
  [][/\ (\E c \in Cars, body \in CarBodies : CarPut(c, body) \/ CarPatch(c, body))
        => carSchedule' = carSchedule
     /\ carSchedule' # carSchedule
        => \E r \in Reqs : /\ req[r].pc \in {"c_commit", "x_commit"}
                           /\ req'[r].txn = "committed"]_vars

(* A car update whose body carried a model and a schedule was applied when  *)
(* the car's schedule held blocking entries, and the entries are there.     *)
C19_Witness ==
  /\ carInfo["c1"].model = "m1"
  /\ carInfo["c1"].at = 2
  /\ Len(carSchedule["c1"]) = 2
  /\ \A i \in 1..2 : carSchedule["c1"][i].available = "null"

(* C20: every request that has ended without success has a response of the *)
(* handler's making, with status 400, 404 or 500: no exception has left the *)
(* handler.                                                                 *)
C20_FailuresAreResponses ==
  \A r \in Reqs :
    (req[r].pc = "done" /\ req[r].resp # 200)
    => /\ ~req[r].escaped
       /\ req[r].resp \in {400, 404, 500}

(* C18: a request whose id is malformed, or whose status is none of         *)
(* pending, confirmed, cancelled, completed, ends (unless the storage fails *)
(* it) with a 400, without having read its booking and without a write,     *)
(* and its last step changes no booking and no car.                         *)
C18_InvalidArgumentRejectedFirst ==
  [][\A r \in Reqs :
       (/\ Ends(r)
        /\ \/ req'[r].id = "malformed"
           \/ req'[r].kind \notin Statuses \cup {"complete"}
        /\ req'[r].exc # "Storage")
       => /\ req'[r].resp = 400
          /\ req[r].rd = "none"
          /\ req'[r].bw = 0 /\ req'[r].cw = 0
          /\ <<bstatus', bdates', carSchedule'>> = <<bstatus, bdates, carSchedule>>]_vars

====
